---- MODULE Spec2Model ----
(***************************************************************************)
(* Model of ugali's likelihood engine, src/analysis/loglike.py:            *)
(* class LogLikelihood (parameter proxying, dirty flags, sync_params,      *)
(* value) and its richness optimizer fit_richness.                         *)
(*                                                                         *)
(* Floating point numbers are modelled as pairs <<n, d>> standing for n/d  *)
(* with d >= 0:  <<n, 0>> with n > 0 is +inf, with n < 0 is -inf, and      *)
(* <<0, 0>> is NaN.  The arithmetic below follows IEEE-754 on the special  *)
(* values (0/0 = NaN, inf*0 = NaN, x/0 = inf, every comparison with NaN is *)
(* false) and is exact on the finite ones.                                 *)
(***************************************************************************)
EXTENDS Integers, Sequences, FiniteSets, TLC

VARIABLES self, pc, fit, last

vars == <<self, pc, fit, last>>

----------------------------------------------------------------------------
(* Bounds of the model *)

\* largest maxiter argument a caller passes to fit_richness
MaxIter == 2

\* largest richness a caller writes directly
MaxRichness == 1

\* the number of points of the grid of richness_interval (n_pdf_points)
NPdfPoints == 3

----------------------------------------------------------------------------
(* Numbers *)

RECURSIVE Gcd(_, _)
Gcd(a, b) == IF b = 0 THEN a ELSE Gcd(b, a % b)

AbsInt(a) == IF a < 0 THEN -a ELSE a

SignInt(a) == IF a < 0 THEN -1 ELSE IF a > 0 THEN 1 ELSE 0

\* canonical form of n/d: d >= 0, lowest terms, specials <<1,0>> <<-1,0>> <<0,0>>
Norm(n, d) ==
    IF d = 0 THEN <<SignInt(n), 0>>
    ELSE LET g == Gcd(AbsInt(n), AbsInt(d))
             s == SignInt(d)
         IN  <<(s * n) \div g, (s * d) \div g>>

NaN == <<0, 0>>
Inf == <<1, 0>>
Zero == <<0, 1>>
One == <<1, 1>>
Num(k) == <<k, 1>>

IsNaN(x) == x[1] = 0 /\ x[2] = 0
IsInf(x) == x[1] # 0 /\ x[2] = 0
IsFinite(x) == x[2] > 0

Neg(x) == <<-x[1], x[2]>>

Mul(x, y) == Norm(x[1] * y[1], x[2] * y[2])

Add(x, y) ==
    IF IsNaN(x) \/ IsNaN(y) THEN NaN
    ELSE IF IsInf(x) /\ IsInf(y) THEN (IF x[1] = y[1] THEN x ELSE NaN)
    ELSE IF IsInf(x) THEN x
    ELSE IF IsInf(y) THEN y
    ELSE Norm(x[1] * y[2] + y[1] * x[2], x[2] * y[2])

Sub(x, y) == Add(x, Neg(y))

\* x / y with numpy's float semantics: 0/0 = NaN, inf/inf = NaN, a/0 = +-inf
Div(x, y) ==
    IF IsNaN(x) \/ IsNaN(y) THEN NaN
    ELSE Norm(x[1] * y[2], x[2] * y[1])

\* x < y; false when either side is NaN
Less(x, y) ==
    IF IsNaN(x) \/ IsNaN(y) THEN FALSE
    ELSE IF IsInf(x) /\ IsInf(y) THEN x[1] < y[1]
    ELSE IF IsInf(x) THEN x[1] < 0
    ELSE IF IsInf(y) THEN y[1] > 0
    ELSE x[1] * y[2] < y[1] * x[2]

Leq(x, y) == Less(x, y) \/ (~IsNaN(x) /\ x = y)

Fabs(x) == <<AbsInt(x[1]), x[2]>>

\* natural logarithm of 1..32 in thousandths (numpy.log on the model's range)
LnTable ==
    <<0, 693, 1099, 1386, 1609, 1792, 1946, 2079, 2197, 2303, 2398, 2485,
      2565, 2639, 2708, 2773, 2833, 2890, 2944, 2996, 3045, 3091, 3135,
      3178, 3219, 3258, 3296, 3332, 3367, 3401, 3434, 3466>>

RECURSIVE LnT(_)
LnT(k) == IF k <= Len(LnTable) THEN LnTable[k] ELSE LnTable[2] + LnT(k \div 2)

\* numpy.log: log(0) = -inf, log(negative) = NaN, log(inf) = inf, log(NaN) = NaN
Log(x) ==
    IF IsNaN(x) THEN NaN
    ELSE IF IsInf(x) THEN (IF x[1] > 0 THEN Inf ELSE NaN)
    ELSE IF x[1] < 0 THEN NaN
    ELSE IF x[1] = 0 THEN Neg(Inf)
    ELSE Norm(LnT(x[1]) - LnT(x[2]), 1000)

RECURSIVE SumSeq(_)
SumSeq(a) == IF a = <<>> THEN Zero ELSE Add(a[1], SumSeq(Tail(a)))

----------------------------------------------------------------------------
(* The collaborators handed to the constructor: ROI, catalog, isochrone,   *)
(* kernel.  Their code is outside this file; the engine only calls them.   *)
(* Here they are fixed, deterministic functions of the parameters: a sky   *)
(* that is a strip of three pixels at lon = 0, 1, 2 of which the first two *)
(* are the interior of the ROI, and one catalog object at the centre of    *)
(* each interior pixel.                                                    *)

ModelOrder == <<"richness", "color", "spatial">>

Lons == {0, 1, 2}
Lats == {0}
DistanceModuli == {0, 1, 2}

\* values a caller writes to each parameter
ParamValues ==
    [richness |-> {Num(k) : k \in 0..MaxRichness},
     distance_modulus |-> DistanceModuli,
     lon |-> Lons,
     lat |-> Lats]

ParamNames == DOMAIN ParamValues

\* catalog.lon, catalog.lat of the interior catalog
catalog == <<[lon |-> 0, lat |-> 0], [lon |-> 1, lat |-> 0]>>

\* roi.pixels_interior, as pixel numbers and as pixel centres
pixels_interior == <<[pix |-> 1, lon |-> 0, lat |-> 0], [pix |-> 2, lon |-> 1, lat |-> 0]>>

\* roi.area_pixel
area_pixel == One

\* ang2pix(nside, lon, lat)
ang2pix(lon, lat) == Cardinality(Lons) * lat + lon + 1

\* isochrone.observableFraction(mask, distance_modulus), per interior pixel:
\* nothing observable at distance modulus 0, every pixel at 1, the first at 2
observableFraction(dm) ==
    [i \in 1..Len(pixels_interior) |-> IF dm > 0 /\ i <= 3 - dm THEN One ELSE Zero]

\* isochrone.pdf(mag_1, mag_2, ..., distance_modulus, ...), per catalog object:
\* the first object matches at distance modulus 1, both at 2
isochrone_pdf(dm) ==
    [i \in 1..Len(catalog) |-> IF i <= dm THEN One ELSE Zero]

\* kernel.pdf(lon, lat) at the points pts for the kernel centred on (klon, klat):
\* 1 at the centre and 0 elsewhere
kernel_pdf(klon, klat, pts) ==
    [i \in 1..Len(pts) |->
        IF pts[i].lon = klon /\ pts[i].lat = klat THEN One ELSE Zero]

\* kernel.pdf at the catalog objects; a kernel centred outside the interior
\* has no defined density at the objects
kernel_pdf_object(klon, klat) ==
    IF ~\E i \in 1..Len(pixels_interior) :
            pixels_interior[i].lon = klon /\ pixels_interior[i].lat = klat
    THEN [i \in 1..Len(catalog) |-> NaN]
    ELSE kernel_pdf(klon, klat, catalog)

----------------------------------------------------------------------------
(* LogLikelihood *)

\* names defined on the class as read-only properties
Properties == {"kernel", "isochrone", "params", "pixel", "u", "b", "p", "f"}

\* the basic elements of the likelihood, protected as properties without setter
Protected == {"u", "b", "p", "f"}

\* names that are neither parameters nor attributes of the engine
UnknownNames == {"foo"}

\* the key of the first model owning parameter name, or "" (the for loop of
\* __getattr__ and __setattr__)
RECURSIVE OwnerFrom(_, _, _)
OwnerFrom(s, name, i) ==
    IF i > Len(ModelOrder) THEN ""
    ELSE IF name \in DOMAIN s.models[ModelOrder[i]] THEN ModelOrder[i]
    ELSE OwnerFrom(s, name, i + 1)

Owner(s, name) == OwnerFrom(s, name, 1)

\* the outcome of a call: the engine after it, the exception raised ("" for none),
\* the value returned, and the recomputations it ran
Outcome(s, e, r, ran) == [self |-> s, exc |-> e, ret |-> r, ran |-> ran]

Raise(s, e) == Outcome(s, e, NaN, {})

Return(s, r) == Outcome(s, "", r, {})

\* a write that leaves the sync flags alone
MarkDirtyNever(sync, key) == sync

\* a write that marks every group
MarkDirtyAll(sync, key) == [k \in DOMAIN sync |-> TRUE]

\* the sync flags after a write to a parameter of group key
MarkDirty(sync, key) == [sync EXCEPT ![key] = TRUE]

\* setattr(model, name, value) of the owning model
ModelSet(models, key, name, value) == [models EXCEPT ![key][name] = value]

\* an object.__setattr__ that knows no read-only property
ObjectSetAny(s, name, value) ==
    Return([s EXCEPT !.dict = {a \in s.dict : a[1] # name} \cup {<<name, value>>}], NaN)

\* object.__setattr__(self, name, value)
ObjectSet(s, name, value) ==
    IF name \in Properties
    THEN Raise(s, "AttributeError")
    ELSE Return([s EXCEPT !.dict = {a \in s.dict : a[1] # name} \cup {<<name, value>>}], NaN)

SetOwned(s, key, name, value) ==
    IF key # ""
    THEN Return([s EXCEPT !.sync = MarkDirty(s.sync, key),
                          !.models = ModelSet(s.models, key, name, value)], NaN)
    ELSE ObjectSet(s, name, value)

__setattr__(s, name, value) == SetOwned(s, Owner(s, name), name, value)

\* object.__getattribute__(self, name) for a name that is no property
ObjectGet(s, name) ==
    IF \E a \in s.dict : a[1] = name
    THEN Return(s, (CHOOSE a \in s.dict : a[1] = name)[2])
    ELSE Raise(s, "AttributeError")

GetOwned(s, key, name) ==
    IF key # "" THEN Return(s, s.models[key][name]) ELSE ObjectGet(s, name)

__getattr__(s, name) == GetOwned(s, Owner(s, name), name)

\* the pixel property
pixel(s) == ang2pix(s.models.spatial.lon, s.models.spatial.lat)

InInterior(pix) == \E i \in 1..Len(pixels_interior) : pixels_interior[i].pix = pix

\* the for loop of set_params over kwargs, a sequence of <<key, value>>, entered
\* with the outcome r so far; an exception from setattr ends it
RECURSIVE SetAll(_, _)
SetAll(r, kwargs) ==
    IF r.exc # "" \/ kwargs = <<>> THEN r
    ELSE SetAll(__setattr__(r.self, kwargs[1][1], kwargs[1][2]), Tail(kwargs))

\* set_params without the interior test
CheckPixelOff(r) == r

\* the interior test of set_params on the outcome r of its writes
CheckPixel(r) ==
    IF r.exc = "" /\ ~InInterior(pixel(r.self)) THEN Raise(r.self, "ValueError") ELSE r

set_params(s, kwargs) == CheckPixel(SetAll(Return(s, NaN), kwargs))

\* a test of the observable fraction that never raises
CheckObservableOff(s, observable_fraction) == Return(s, observable_fraction)

\* raises when the observable fraction sums to nothing, else returns it in ret
CheckObservable(s, observable_fraction) ==
    IF ~Less(Zero, SumSeq(observable_fraction))
    THEN Raise(s, "ValueError")
    ELSE Return(s, observable_fraction)

calc_observable_fraction(s, distance_modulus) ==
    CheckObservable(s, observableFraction(distance_modulus))

calc_signal_color(s, distance_modulus) == isochrone_pdf(distance_modulus)

\* stores surface_intensity_sparse and returns u_spatial in ret
calc_signal_spatial(s) ==
    Return([s EXCEPT !.surface_intensity_sparse =
                        kernel_pdf(s.models.spatial.lon, s.models.spatial.lat, pixels_interior)],
           kernel_pdf_object(s.models.spatial.lon, s.models.spatial.lat))

\* elementwise product of two arrays of the same length
MulSeq(a, b) == [i \in 1..Len(a) |-> Mul(a[i], b[i])]

\* element i of array a under numpy broadcasting (a one-element array repeats)
At(a, i) == IF Len(a) = 1 THEN a[1] ELSE a[i]

\* x / (x + b) for x = richness * u
Ratio(x, b) == Div(x, Add(x, b))

\* (richness * u) / ((richness * u) + b), elementwise
SignalProbability(richness, u, b) ==
    [i \in 1..Len(u) |-> Ratio(Mul(richness, u[i]), At(b, i))]

\* _u: the product of the two factors, the spatial one alone in spatial-only mode
SignalDensity(s) ==
    IF s.spatial_only THEN s.u_spatial ELSE MulSeq(s.u_spatial, s.u_color)

\* the observable fraction that enters _f: (observable_fraction > 0) in
\* spatial-only mode
FractionForF(s) ==
    IF s.spatial_only
    THEN [i \in 1..Len(s.observable_fraction) |->
             IF Less(Zero, s.observable_fraction[i]) THEN One ELSE Zero]
    ELSE s.observable_fraction

\* _f = roi.area_pixel * (surface_intensity_sparse * observable_fraction).sum()
Normalization(s) ==
    Mul(area_pixel, SumSeq(MulSeq(s.surface_intensity_sparse, FractionForF(s))))

\* a combination step that also resets the background
StoreCombinedB(s, u) ==
    [s EXCEPT !.u = u, !.f = Normalization(s),
              !.p = SignalProbability(s.models.richness.richness, u, s.b),
              !.b = [i \in 1..Len(s.b) |-> Zero]]

StoreCombined(s, u) ==
    [s EXCEPT !.u = u, !.f = Normalization(s),
              !.p = SignalProbability(s.models.richness.richness, u, s.b)]

\* the combination step of sync_params: _u, _f and _p from the cached factors
Combine(s) == StoreCombined(s, SignalDensity(s))

\* a sync toggle that is never reset
ResetSyncKeep(sync) == sync

\* the reset of the sync toggle
ResetSync(sync) == [k \in DOMAIN sync |-> FALSE]

StoreColor(s, r, dm) ==
    IF r.exc # "" THEN r
    ELSE Outcome([s EXCEPT !.observable_fraction = r.ret,
                           !.u_color = calc_signal_color(s, dm)], "", NaN, {"color"})

\* a color step that ignores the sync flag
SyncColorAlways(s) ==
    StoreColor(s, calc_observable_fraction(s, s.models.color.distance_modulus),
               s.models.color.distance_modulus)

\* the color step of sync_params
SyncColor(s) ==
    IF ~s.sync["color"] THEN Return(s, NaN)
    ELSE StoreColor(s, calc_observable_fraction(s, s.models.color.distance_modulus),
                    s.models.color.distance_modulus)

StoreSpatial(r, ran) ==
    Outcome([r.self EXCEPT !.u_spatial = r.ret], "", NaN, ran \cup {"spatial"})

\* a spatial step that ignores the sync flag
SyncSpatialAlways(c) ==
    IF c.exc # "" THEN c ELSE StoreSpatial(calc_signal_spatial(c.self), c.ran)

\* the spatial step of sync_params, entered with the outcome c of the color step
SyncSpatial(c) ==
    IF c.exc # "" THEN c
    ELSE IF ~c.self.sync["spatial"] THEN c
    ELSE StoreSpatial(calc_signal_spatial(c.self), c.ran)

\* the end of sync_params: the flags are reset
Synced(s, ran) ==
    Outcome([s EXCEPT !.sync = ResetSync(s.sync), !.synced = TRUE], "", NaN,
            ran \cup {"combine"})

SyncCombine(r) == IF r.exc # "" THEN r ELSE Synced(Combine(r.self), r.ran)

sync_params(s) == SyncCombine(SyncSpatial(SyncColor(s)))

\* numpy.log(1. - self.p)
LogOneMinus(p) == [i \in 1..Len(p) |-> Log(Sub(One, p[i]))]

\* -1. * numpy.sum(numpy.log(1. - self.p)) - (self.f * self.richness)
__call__(s) ==
    Sub(Mul(Num(-1), SumSeq(LogOneMinus(s.p))), Mul(s.f, s.models.richness.richness))

\* return self() after a successful sync_params
Evaluate(y) == IF y.exc # "" THEN y ELSE [y EXCEPT !.ret = __call__(y.self)]

\* a value that synchronizes even after set_params has failed
SyncAfterAlways(r) == [sync_params(r.self) EXCEPT !.exc = IF r.exc # "" THEN r.exc ELSE @]

SyncAfter(r) == IF r.exc # "" THEN r ELSE sync_params(r.self)

\* a value that evaluates and puts the engine back as it found it
ValueRestoring(s, kwargs) ==
    [Evaluate(SyncAfter(set_params(s, kwargs))) EXCEPT !.self = s]

value(s, kwargs) == Evaluate(SyncAfter(set_params(s, kwargs)))

----------------------------------------------------------------------------
(* fit_richness *)

\* default of the atol argument
atol == Norm(1, 1000)

\* vertex_x of ugali.utils.parabola.Parabola: any of these, whatever the points
VertexChoices == {Num(-1), Zero, Num(10)}

\* the value None, and Parabola(x, y) with the vertex it reports
NoParabola == [x |-> <<>>, y |-> <<>>, vertex_x |-> NaN]

Parabola(x, y, vx) == [x |-> x, y |-> y, vertex_x |-> vx]

\* a NaN test that finds nothing
AnyNaNOff(a) == FALSE

\* numpy.isnan(a).any()
AnyNaN(a) == \E i \in 1..Len(a) : IsNaN(a[i])

\* numpy.any(a): some element is not zero
AnyNonZero(a) == \E i \in 1..Len(a) : a[i] # Zero

\* the larger of x and the maximum m of the elements after it
Larger(x, m) ==
    IF IsNaN(x) \/ IsNaN(m) THEN NaN ELSE IF Less(x, m) THEN m ELSE x

\* numpy.max(a): NaN when a holds a NaN
RECURSIVE MaxSeq(_)
MaxSeq(a) == IF Len(a) = 1 THEN a[1] ELSE Larger(a[1], MaxSeq(Tail(a)))

\* numpy.argmax(a): the first NaN if there is one, else the first maximum
ArgMax(a) ==
    IF AnyNaN(a)
    THEN CHOOSE i \in 1..Len(a) : IsNaN(a[i]) /\ \A j \in 1..(i - 1) : ~IsNaN(a[j])
    ELSE CHOOSE i \in 1..Len(a) :
            /\ \A j \in 1..Len(a) : Leq(a[j], a[i])
            /\ \A j \in 1..(i - 1) : Less(a[j], a[i])

\* the locals of a fit_richness call
FitIdle ==
    [richness |-> <<>>, loglike |-> <<>>, iteration |-> 0, maxiter |-> 0,
     found_maximum |-> FALSE, warned |-> FALSE, parabola |-> NoParabola, ran |-> {}]

\* the seeds: richness corresponding to 0, 1 and 10 observable stars
Seeds(f) == <<Zero, Div(One, f), Div(Num(10), f)>>

\* loglike.append(self.value(richness=r)) with the outcome v of that value call;
\* an exception leaves fit_richness
Evaluated(f, r, v) ==
    [self |-> v.self, exc |-> v.exc,
     fit |-> [f EXCEPT !.loglike = IF v.exc = "" THEN Append(@, v.ret) ELSE @,
                       !.ran = @ \cup v.ran]]

\* the seed loop from seed i on, entered with the outcome so far
RECURSIVE Seed(_, _)
Seed(e, i) ==
    IF e.exc # "" \/ i > Len(e.fit.richness) THEN e
    ELSE Seed(Evaluated(e.fit, e.fit.richness[i],
                        value(e.self, << <<"richness", e.fit.richness[i]>> >>)),
              i + 1)

\* the iteration cap test after iteration += 1
CapReached(iteration, maxiter) == iteration > maxiter

\* a convergence test against the log-likelihood evaluated just before
ConvergedLast(loglike) ==
    Less(Fabs(Sub(loglike[Len(loglike)], loglike[Len(loglike) - 1])), atol)

\* the convergence test on the log-likelihoods with the new one last
Converged(loglike) ==
    Less(Fabs(Sub(loglike[Len(loglike)], MaxSeq(SubSeq(loglike, 1, Len(loglike) - 1)))), atol)

\* 2. * loglike
Twice(loglike) == [i \in 1..Len(loglike) |-> Mul(Num(2), loglike[i])]

\* the end of a pass: iteration += 1 and the cap
Counted(f) ==
    [f EXCEPT !.iteration = @ + 1, !.warned = CapReached(f.iteration + 1, f.maxiter)]

\* the else branch of a pass, with the outcome e of evaluating the vertex
Tested(e) ==
    IF e.exc # "" THEN e
    ELSE [e EXCEPT !.fit = Counted([e.fit EXCEPT !.found_maximum = Converged(e.fit.loglike)])]

\* one pass through the body of the while loop with the parabola fitted
Pass(s, f, parabola) ==
    IF Less(parabola.vertex_x, Zero)
    THEN [self |-> s, exc |-> "",
          fit |-> Counted([f EXCEPT !.parabola = parabola, !.found_maximum = TRUE])]
    ELSE Tested(Evaluated([f EXCEPT !.parabola = parabola,
                                    !.richness = Append(@, parabola.vertex_x)],
                          parabola.vertex_x,
                          value(s, << <<"richness", parabola.vertex_x>> >>)))

\* the value at index numpy.argmax(loglike) of loglike and richness
Best(f, index) ==
    [loglike |-> f.loglike[index], richness |-> f.richness[index], parabola |-> f.parabola]

\* index = numpy.argmax(loglike); return loglike[index], richness[index], parabola
FitResult(f) == Best(f, ArgMax(f.loglike))

\* the sentinel 0., 0., None
Sentinel == [loglike |-> Zero, richness |-> Zero, parabola |-> NoParabola]

----------------------------------------------------------------------------
(* richness_interval *)

\* parabola.profileUpperLimit(delta=25.): any of these, whatever the points
UpperLimits == {Zero, Num(2), Num(12)}

\* max(0., x) of Python: x when x > 0., else 0.
Max0(x) == IF Less(Zero, x) THEN x ELSE Zero

\* numpy.linspace(start, stop, num): arange(num) * step + start with the last
\* element set to stop
Linspace(start, stop, num) ==
    [i \in 1..num |->
        IF i = num THEN stop
        ELSE Add(Mul(Num(i - 1), Div(Sub(stop, start), Num(num - 1))), start)]

\* if richness[0] > 0.: richness = numpy.insert(richness, 0, 0.); n_pdf_points += 1
WithZero(richness, n_pdf_points) ==
    IF Less(Zero, richness[1])
    THEN [richness |-> <<Zero>> \o richness, n_pdf_points |-> n_pdf_points + 1]
    ELSE [richness |-> richness, n_pdf_points |-> n_pdf_points]

\* the grid of richness_interval and its number of points
Grid(richness_max, richness_range) ==
    WithZero(Linspace(Max0(Sub(richness_max, richness_range)),
                      Add(richness_max, richness_range), NPdfPoints), NPdfPoints)

\* log_likelihood[kk] = self.value(richness=richness[kk]) with the outcome v of
\* that value call
Sampled(e, v) ==
    [self |-> v.self, exc |-> v.exc,
     log_likelihood |-> IF v.exc = "" THEN Append(e.log_likelihood, v.ret)
                        ELSE e.log_likelihood]

\* the for loop over range(0, n_pdf_points) from kk on (kk counted from 1)
RECURSIVE Sample(_, _, _, _)
Sample(e, richness, kk, n_pdf_points) ==
    IF e.exc # "" \/ kk > n_pdf_points THEN e
    ELSE Sample(Sampled(e, value(e.self, << <<"richness", richness[kk]>> >>)),
                richness, kk + 1, n_pdf_points)

----------------------------------------------------------------------------
(* State *)

\* the locals of a richness_interval call
IntervalIdle ==
    [richness_max |-> NaN, richness_range |-> NaN, richness |-> <<>>,
     log_likelihood |-> <<>>, n_pdf_points |-> 0]

\* what the last completed call did
NoCall ==
    [op |-> "", exc |-> "", ret |-> NaN, ran |-> {}, kwargs |-> <<>>,
     result |-> Sentinel, fit |-> FitIdle, interval |-> IntervalIdle]

\* calc_backgroundCMD: the background density of each object, or one density
\* for all of them in spatial-only mode
Backgrounds(spatial_only) ==
    IF spatial_only
    THEN {<<One>>}
    ELSE {<<One, One>>, <<Zero, One>>}

Init ==
    /\ \E dm \in DistanceModuli, lon \in Lons, lat \in Lats, spatial_only \in BOOLEAN :
        \E b \in Backgrounds(spatial_only) :
            self = [models |-> [richness |-> [richness |-> One],
                                color |-> [distance_modulus |-> dm],
                                spatial |-> [lon |-> lon, lat |-> lat]],
                    sync |-> [k \in {ModelOrder[i] : i \in 1..Len(ModelOrder)} |-> TRUE],
                    spatial_only |-> spatial_only,
                    dict |-> {},
                    synced |-> FALSE,
                    observable_fraction |-> <<>>,
                    u_color |-> <<>>,
                    u_spatial |-> <<>>,
                    surface_intensity_sparse |-> <<>>,
                    u |-> <<>>, f |-> Zero, p |-> <<>>,
                    b |-> b]
    /\ pc = "idle"
    /\ fit = FitIdle
    /\ last = NoCall

\* keyword arguments a caller passes to set_params and value
ParamWrites == UNION {{<<n, v>> : v \in ParamValues[n]} : n \in ParamNames}

Kwargs ==
    {<<>>}
    \cup {<<w>> : w \in {x \in ParamWrites : x[1] \in {"richness", "distance_modulus"}}}
    \cup {<< <<"lon", x>>, <<"lat", y>> >> : x \in Lons, y \in Lats}
    \cup {<< <<n, 1>> >> : n \in UnknownNames}

----------------------------------------------------------------------------
(* Calls made by the owner of the engine, one at a time *)

Done(op, kwargs, r) ==
    /\ self' = r.self
    /\ last' = [NoCall EXCEPT !.op = op, !.exc = r.exc, !.ret = r.ret, !.ran = r.ran,
                              !.kwargs = kwargs]
    /\ UNCHANGED <<pc, fit>>

\* names a caller assigns that no model owns: an unknown one and a read-only
\* property
OtherNames == UnknownNames \cup {"p"}

\* engine.name = value
SetAttr ==
    /\ pc = "idle"
    /\ \E w \in ParamWrites \cup {<<n, 1>> : n \in OtherNames} :
          \E r \in {__setattr__(self, w[1], w[2])} : Done("setattr", <<w>>, r)

SyncParams ==
    /\ pc = "idle"
    /\ \E r \in {sync_params(self)} : Done("sync_params", <<>>, r)

Value ==
    /\ pc = "idle"
    /\ \E kwargs \in Kwargs : \E r \in {value(self, kwargs)} : Done("value", kwargs, r)

\* the caller moves the candidate: a write to a color or spatial parameter
SetCandidate ==
    /\ pc = "idle"
    /\ \E w \in {x \in ParamWrites : x[1] # "richness"} :
          \E r \in {__setattr__(self, w[1], w[2])} : Done("setattr", <<w>>, r)

\* fit_richness returns or raises: the call is over
FitDone(s, exc, result, f) ==
    /\ self' = s
    /\ pc' = "idle"
    /\ fit' = FitIdle
    /\ last' = [NoCall EXCEPT !.op = "fit_richness", !.exc = exc, !.ran = f.ran,
                              !.ret = result.loglike, !.result = result, !.fit = f]

\* fit_richness goes on with the while loop
FitGoOn(s, f) ==
    /\ self' = s
    /\ pc' = "fit_loop"
    /\ fit' = f
    /\ UNCHANGED last

\* fit_richness up to the while loop: the degenerate cases and the three seeds
FitRichness ==
    /\ pc = "idle"
    /\ \E maxiter \in {MaxIter} :
        IF ~self.synced THEN FitDone(self, "AttributeError", Sentinel, FitIdle)
        ELSE IF AnyNaN(self.u) THEN FitDone(self, "", Sentinel, FitIdle)
        ELSE IF ~AnyNonZero(self.u) THEN FitDone(self, "", Sentinel, FitIdle)
        ELSE \E e \in {Seed([self |-> self, exc |-> "",
                            fit |-> [FitIdle EXCEPT !.maxiter = maxiter,
                                                    !.richness = Seeds(self.f)]], 1)} :
                IF e.exc # "" THEN FitDone(e.self, e.exc, Sentinel, e.fit)
                ELSE FitGoOn(e.self, e.fit)

\* one pass through the body of the while loop, and the return when it ends the loop
FitIterate ==
    /\ pc = "fit_loop"
    /\ \E vx \in VertexChoices :
        \E e \in {Pass(self, fit, Parabola(fit.richness, Twice(fit.loglike), vx))} :
            IF e.exc # "" THEN FitDone(e.self, e.exc, Sentinel, e.fit)
            ELSE IF e.fit.found_maximum \/ e.fit.warned
            THEN FitDone(e.self, "", FitResult(e.fit), e.fit)
            ELSE FitGoOn(e.self, e.fit)

\* richness_interval returns or raises: the call is over
IntervalDone(s, exc, interval) ==
    /\ self' = s
    /\ pc' = "idle"
    /\ fit' = FitIdle
    /\ last' = [NoCall EXCEPT !.op = "richness_interval", !.exc = exc,
                              !.interval = interval]

\* richness_interval goes on with the while loop of its fit_richness call
IntervalGoOn(s, f) ==
    /\ self' = s
    /\ pc' = "interval_fit"
    /\ fit' = f
    /\ UNCHANGED last

\* richness_interval up to the while loop of the fit_richness it calls with the
\* default arguments (the default maxiter stands at MaxIter here); the sentinel
\* of a degenerate fit has None for parabola, and parabola.profileUpperLimit
\* raises AttributeError on it
RichnessInterval ==
    /\ pc = "idle"
    /\ IF ~self.synced THEN IntervalDone(self, "AttributeError", IntervalIdle)
       ELSE IF AnyNaN(self.u) \/ ~AnyNonZero(self.u)
       THEN IntervalDone(self, "AttributeError", IntervalIdle)
       ELSE \E e \in {Seed([self |-> self, exc |-> "",
                            fit |-> [FitIdle EXCEPT !.maxiter = MaxIter,
                                                    !.richness = Seeds(self.f)]], 1)} :
                IF e.exc # "" THEN IntervalDone(e.self, e.exc, IntervalIdle)
                ELSE IntervalGoOn(e.self, e.fit)

\* richness_interval after fit_richness has returned result with the engine s:
\* the grid from the upper limit ul the parabola reports, and the samples
IntervalRest(s, result, ul) ==
    \E g \in {Grid(result.richness, Sub(ul, result.richness))} :
        \E m \in {Sample([self |-> s, exc |-> "", log_likelihood |-> <<>>], g.richness, 1,
                          g.n_pdf_points)} :
            IntervalDone(m.self, m.exc,
                         [richness_max |-> result.richness,
                          richness_range |-> Sub(ul, result.richness),
                          richness |-> g.richness,
                          log_likelihood |-> m.log_likelihood,
                          n_pdf_points |-> g.n_pdf_points])

\* one pass through the while loop of the fit_richness that richness_interval
\* called, and the rest of richness_interval when that pass ends the loop
IntervalIterate ==
    /\ pc = "interval_fit"
    /\ \E vx \in VertexChoices :
        \E e \in {Pass(self, fit, Parabola(fit.richness, Twice(fit.loglike), vx))} :
            IF e.exc # "" THEN IntervalDone(e.self, e.exc, IntervalIdle)
            ELSE IF e.fit.found_maximum \/ e.fit.warned
            THEN \E ul \in UpperLimits : IntervalRest(e.self, FitResult(e.fit), ul)
            ELSE IntervalGoOn(e.self, e.fit)

\* the engine under parameter writes, synchronization and evaluation
Next == SetAttr \/ SyncParams \/ Value

Spec == Init /\ [][Next]_vars

\* the optimizer: fit_richness sets the richness itself, the caller only moves
\* the candidate and synchronizes
FitNext == SetCandidate \/ SyncParams \/ FitRichness \/ FitIterate

FitSpec == Init /\ [][FitNext]_vars

\* the optimizer with the confidence interval
IntervalNext == FitNext \/ RichnessInterval \/ IntervalIterate

IntervalSpec == Init /\ [][IntervalNext]_vars

----------------------------------------------------------------------------
(* Properties of the engine, checked under Spec *)

SyncedCall == last.op \in {"sync_params", "value"} /\ last.exc = ""

\* sync_params of s with every group taken as dirty
FromScratch(s) == sync_params([s EXCEPT !.sync = [k \in DOMAIN s.sync |-> TRUE]])

\* the cached quantities of s are those of the successful outcome r
SameCaches(s, r) ==
    /\ r.exc = ""
    /\ s.observable_fraction = r.self.observable_fraction
    /\ s.u_color = r.self.u_color
    /\ s.u_spatial = r.self.u_spatial
    /\ s.surface_intensity_sparse = r.self.surface_intensity_sparse
    /\ s.u = r.self.u
    /\ s.p = r.self.p
    /\ s.f = r.self.f

\* C1: after every successful sync_params (called directly or by value), the
\* cached u_color, observable_fraction, u_spatial, surface intensity, u, p and f
\* are what a recomputation of every group from the current parameters gives.
C1_SyncMatchesFullRecompute == SyncedCall => SameCaches(self, FromScratch(self))

\* a sync_params that recomputed the spatial group and skipped the color group
C1_Witness ==
    /\ last.op = "sync_params" /\ last.exc = ""
    /\ last.ran = {"spatial", "combine"}

\* the group that owns parameter name
GroupOf(name) == CHOOSE k \in DOMAIN self.models : name \in DOMAIN self.models[k]

\* C2: a write of a sub-model's parameter through the engine stores the value on
\* the owning sub-model, sets that group's dirty flag and leaves the other two
\* flags as they were.
C2_WriteMarksOwner ==
    [][\A w \in ParamWrites :
        (last'.op = "setattr" /\ last'.kwargs = <<w>>)
        => /\ last'.exc = ""
           /\ self'.models[GroupOf(w[1])][w[1]] = w[2]
           /\ self'.sync[GroupOf(w[1])]
           /\ \A k \in DOMAIN self.sync \ {GroupOf(w[1])} : self'.sync[k] = self.sync[k]]_vars

\* distance_modulus was written to a synchronized engine: only color is dirty
C2_Witness ==
    /\ last.op = "setattr" /\ last.exc = ""
    /\ last.kwargs # <<>> /\ last.kwargs[1][1] = "distance_modulus"
    /\ self.synced
    /\ self.sync = [richness |-> FALSE, color |-> TRUE, spatial |-> FALSE]

\* a call that writes no parameter but richness
RichnessOnlyCall(l) ==
    /\ l.op \in {"setattr", "sync_params", "value"}
    /\ \A i \in 1..Len(l.kwargs) : l.kwargs[i][1] = "richness"

\* C3: from an engine whose color and spatial groups are synchronized, a write of
\* richness, a sync_params or a value(richness=r) runs neither the color nor the
\* spatial recomputation, leaves u_color, u_spatial, b (and u, f) unchanged and
\* the two groups clean, so the same holds for every sequence of such calls.
C3_RichnessIsolation ==
    [][(self.synced /\ ~self.sync["color"] /\ ~self.sync["spatial"] /\ RichnessOnlyCall(last'))
        => /\ last'.ran \subseteq {"combine"}
           /\ self'.u_color = self.u_color
           /\ self'.u_spatial = self.u_spatial
           /\ self'.observable_fraction = self.observable_fraction
           /\ self'.b = self.b
           /\ self'.u = self.u
           /\ self'.f = self.f
           /\ ~self'.sync["color"] /\ ~self'.sync["spatial"]]_vars

\* value(richness=0) on a synchronized engine ran the combination step alone
C3_Witness ==
    /\ last.op = "value" /\ last.exc = ""
    /\ last.kwargs = << <<"richness", Zero>> >>
    /\ last.ran = {"combine"}
    /\ self.p # <<>> /\ \A i \in 1..Len(self.p) : self.u[i] = Zero \/ self.p[i] = Zero

\* the outcome r of a further sync_params on s leaves s as it was, flags all false
SameAfter(s, r) ==
    /\ r.exc = ""
    /\ r.self.u = s.u /\ r.self.b = s.b /\ r.self.p = s.p /\ r.self.f = s.f
    /\ r.self.sync = s.sync
    /\ \A k \in DOMAIN r.self.sync : ~r.self.sync[k]

\* C4: a sync_params that directly follows a successful sync_params succeeds and
\* leaves u, b, p, f and the dirty flags, all false, as the first left them.
C4_SyncIdempotent ==
    (last.op = "sync_params" /\ last.exc = "") => SameAfter(self, sync_params(self))

\* a sync_params that found every group clean
C4_Witness ==
    /\ last.op = "sync_params" /\ last.exc = ""
    /\ last.ran = {"combine"}
    /\ ~self.sync["richness"]

NonNegative(x) == Leq(Zero, x)

\* C5: after a successful sync_params, p_i = (richness*u_i)/(richness*u_i + b_i)
\* and 0 <= p_i <= 1 for every object with u_i >= 0, b_i >= 0, richness >= 0.
C5_ProbabilityInUnitInterval ==
    SyncedCall =>
        \A i \in 1..Len(self.p) :
            (/\ NonNegative(self.u[i])
             /\ NonNegative(At(self.b, i))
             /\ NonNegative(self.models.richness.richness))
            => /\ self.p[i] = Div(Mul(self.models.richness.richness, self.u[i]),
                                  Add(Mul(self.models.richness.richness, self.u[i]),
                                      At(self.b, i)))
               /\ Leq(Zero, self.p[i])
               /\ Leq(self.p[i], One)

\* C6: assigning a name that is neither a parameter nor a field of the engine
\* fails with an attribute error and leaves the engine unchanged.
C6_UnknownNameFails ==
    [][(/\ last'.op = "setattr"
        /\ last'.kwargs # <<>>
        /\ last'.kwargs[1][1] \in UnknownNames
        /\ ~\E a \in self.dict : a[1] = last'.kwargs[1][1])
        => (last'.exc = "AttributeError" /\ self' = self)]_vars

\* every parameter among the keywords holds the value passed for it
Applied(kwargs, s) ==
    \A i \in 1..Len(kwargs) :
        \A k \in DOMAIN s.models :
            kwargs[i][1] \in DOMAIN s.models[k] => s.models[k][kwargs[i][1]] = kwargs[i][2]

\* nothing was synchronized: the cached quantities are those of before
Untouched(s, t) ==
    /\ t.observable_fraction = s.observable_fraction
    /\ t.u_color = s.u_color /\ t.u_spatial = s.u_spatial
    /\ t.surface_intensity_sparse = s.surface_intensity_sparse
    /\ t.u = s.u /\ t.p = s.p /\ t.f = s.f
    /\ \A k \in DOMAIN s.sync : s.sync[k] => t.sync[k]

\* value returned the likelihood of a p and f synchronized in this call
Evaluated10(l, t) ==
    /\ l.exc = ""
    /\ "combine" \in l.ran
    /\ \A k \in DOMAIN t.sync : ~t.sync[k]
    /\ t.p = SignalProbability(t.models.richness.richness, t.u, t.b)
    /\ l.ret = Sub(Mul(Num(-1), SumSeq([i \in 1..Len(t.p) |-> Log(Sub(One, t.p[i]))])),
                   Mul(t.f, t.models.richness.richness))

\* value failed in sync_params: the color group is dirty and nothing is observable
\* at the distance modulus set
SyncFailed(l, s, t) ==
    /\ l.exc = "ValueError"
    /\ l.ran = {}
    /\ t.sync["color"]
    /\ \A i \in 1..Len(pixels_interior) :
          observableFraction(t.models.color.distance_modulus)[i] = Zero
    /\ Untouched(s, t)

\* C10 as stated: value applies every keyword, then fails with a domain error
\* without synchronizing when the pixel is outside the interior, and otherwise
\* synchronizes and returns the likelihood of the fresh p and f.
C10_ValueAsStated ==
    [][(last'.op = "value" /\ \A i \in 1..Len(last'.kwargs) : last'.kwargs[i][1] \in ParamNames)
        => /\ Applied(last'.kwargs, self')
           /\ IF ~InInterior(pixel(self'))
              THEN last'.exc = "ValueError" /\ last'.ran = {} /\ Untouched(self, self')
              ELSE Evaluated10(last', self')]_vars

\* C10 amended: with the pixel in the interior, value either returns the
\* likelihood of the fresh p and f, or fails with the domain error of
\* sync_params (no observable fraction) having synchronized and evaluated nothing.
C10_ValueSyncMayFail ==
    [][(last'.op = "value" /\ \A i \in 1..Len(last'.kwargs) : last'.kwargs[i][1] \in ParamNames)
        => /\ Applied(last'.kwargs, self')
           /\ IF ~InInterior(pixel(self'))
              THEN last'.exc = "ValueError" /\ last'.ran = {} /\ Untouched(self, self')
              ELSE Evaluated10(last', self') \/ SyncFailed(last', self, self')]_vars

\* value(lon=2, lat=0) moved the candidate out of the interior and failed, lon written
C10_Witness ==
    /\ last.op = "value" /\ last.exc = "ValueError"
    /\ last.kwargs = << <<"lon", 2>>, <<"lat", 0>> >>
    /\ self.models.spatial.lon = 2
    /\ self.sync["spatial"]
    /\ ~InInterior(pixel(self))

----------------------------------------------------------------------------
(* Properties of fit_richness, checked under FitSpec *)

\* fit_richness returned from a run that got past the degenerate cases
FitReturned == last.op = "fit_richness" /\ last.exc = "" /\ last.fit.loglike # <<>>

\* some u_i is NaN, or every u_i is zero
Degenerate(u) == (\E i \in 1..Len(u) : u[i] = NaN) \/ (\A i \in 1..Len(u) : u[i] = Zero)

\* C7: with a NaN among the u_i, or every u_i zero, fit_richness returns
\* (0, 0, None) at once: no likelihood is evaluated, no parameter is written and
\* no dirty flag changes.
C7_DegenerateSentinel ==
    [][(pc = "idle" /\ self.synced /\ Degenerate(self.u) /\ last'.op = "fit_richness")
        => /\ pc' = "idle"
           /\ last'.exc = ""
           /\ last'.result = Sentinel
           /\ last'.fit.loglike = <<>> /\ last'.fit.richness = <<>> /\ last'.ran = {}
           /\ self' = self]_vars

\* fit_richness returned the sentinel for a signal density that holds a NaN
C7_Witness ==
    /\ last.op = "fit_richness" /\ last.exc = "" /\ last.result = Sentinel
    /\ self.synced /\ \E i \in 1..Len(self.u) : self.u[i] = NaN

\* C8: the log-likelihood fit_richness returns is the maximum of all it evaluated
\* (the seeds included), and the richness returned is the trial at which it was
\* evaluated.
C8_ReturnsMaximum ==
    FitReturned =>
        /\ \A i \in 1..Len(last.fit.loglike) : Leq(last.fit.loglike[i], last.result.loglike)
        /\ \E i \in 1..Len(last.fit.loglike) :
              /\ last.fit.loglike[i] = last.result.loglike
              /\ last.fit.richness[i] = last.result.richness

\* C9: the loop of fit_richness makes at most maxiter passes, so at most maxiter
\* evaluations after the three seeds.
C9_AtMostMaxiterPasses ==
    FitReturned =>
        /\ last.fit.iteration <= last.fit.maxiter
        /\ Len(last.fit.loglike) <= Len(Seeds(One)) + last.fit.maxiter

----------------------------------------------------------------------------
(* Failure of sync_params, checked under Spec *)

\* the observable fraction of the distance modulus set on s sums to zero
NothingObservable(s) ==
    SumSeq(observableFraction(s.models.color.distance_modulus)) = Zero

\* the outcome r of sync_params on s: the domain error when the color group is
\* dirty and nothing is observable, and no error when the color group is clean
FailsOnlyDirty(s, r) ==
    /\ (s.sync["color"] /\ NothingObservable(s)) => r.exc = "ValueError"
    /\ ~s.sync["color"] => r.exc = ""

\* C11: in every state of the engine, sync_params with the color group dirty
\* fails with a domain error when the observable fraction sums to zero, and
\* sync_params with the color group clean does not fail.
C11_SyncFailsOnZeroFraction == FailsOnlyDirty(self, sync_params(self))

\* a sync_params that failed with the color group dirty and nothing observable
C11_Witness ==
    /\ last.op = "sync_params" /\ last.exc = "ValueError"
    /\ self.sync["color"] /\ NothingObservable(self)

----------------------------------------------------------------------------
(* The protected fields, checked under Spec *)

\* the outcome r of an assignment to s failed and left s as it was
Refused(s, r) == r.exc = "AttributeError" /\ r.self = s

\* C13: in every state of the engine, assigning u, b, p or f through the engine
\* fails with an attribute error and leaves the stored values, the parameters
\* and the dirty flags unchanged.
C13_ProtectedFieldsReadOnly ==
    \A name \in Protected : Refused(self, __setattr__(self, name, One))

\* an assignment to p on a synchronized engine was refused
C13_Witness ==
    /\ last.op = "setattr" /\ last.exc = "AttributeError"
    /\ last.kwargs = << <<"p", 1>> >>
    /\ self.synced /\ self.p # <<>>

----------------------------------------------------------------------------
(* The steps of sync_params, checked under Spec *)

\* the color caches and the spatial caches of t are those of s
SameColor(s, t) ==
    t.observable_fraction = s.observable_fraction /\ t.u_color = s.u_color

SameSpatial(s, t) ==
    t.u_spatial = s.u_spatial /\ t.surface_intensity_sparse = s.surface_intensity_sparse

\* the outcome r of sync_params on s ran the steps the flags of s ask for
StepsAsFlagged(s, r) ==
    IF r.exc = ""
    THEN /\ ("color" \in r.ran) <=> s.sync["color"]
         /\ ("spatial" \in r.ran) <=> s.sync["spatial"]
         /\ "combine" \in r.ran
         /\ ~s.sync["color"] => SameColor(s, r.self)
         /\ ~s.sync["spatial"] => SameSpatial(s, r.self)
         /\ s.sync["color"] =>
               /\ r.self.observable_fraction =
                     observableFraction(s.models.color.distance_modulus)
               /\ r.self.u_color = isochrone_pdf(s.models.color.distance_modulus)
         /\ s.sync["spatial"] =>
               r.self.u_spatial =
                   kernel_pdf_object(s.models.spatial.lon, s.models.spatial.lat)
         /\ r.self.u = SignalDensity(r.self)
         /\ r.self.f = Normalization(r.self)
         /\ r.self.p = SignalProbability(r.self.models.richness.richness, r.self.u, r.self.b)
         /\ \A k \in DOMAIN r.self.sync : ~r.self.sync[k]
    ELSE /\ s.sync["color"]
         /\ SameSpatial(s, r.self)
         /\ r.self.sync = s.sync

\* C14: in every state of the engine, sync_params recomputes the color group
\* exactly when its flag is dirty at entry and the spatial group exactly when its
\* flag is dirty at entry, runs the combination of u, f and p whenever it
\* succeeds, and then leaves all three flags false; color comes before spatial,
\* so a call that fails in the color step has not touched the spatial group.
C14_StepsFollowFlags == StepsAsFlagged(self, sync_params(self))

\* a sync_params that found only the color group dirty and recomputed it alone
C14_Witness ==
    /\ last.op = "sync_params" /\ last.exc = ""
    /\ last.ran = {"color", "combine"}

----------------------------------------------------------------------------
(* Reading and writing names through the engine, checked under ProxySpec *)

\* engine.name for a name that is no property of the class: Python looks in the
\* instance dictionary first and calls __getattr__ only when that finds nothing
Lookup(s, name) ==
    IF \E a \in s.dict : a[1] = name THEN ObjectGet(s, name) ELSE __getattr__(s, name)

\* self.models[name] = model
set_model(s, name, model) == Return([s EXCEPT !.models[name] = model], NaN)

\* a kernel that owns one more parameter than lon and lat
Kernels == {[lon |-> 0, lat |-> 0, foo |-> 0]}

\* values a caller writes through the engine
ProxyWrites ==
    {<<"lon", x>> : x \in Lons}
    \cup {<<"richness", Num(k)>> : k \in 0..MaxRichness}
    \cup {<<n, v>> : n \in UnknownNames, v \in {1, 2}}

\* engine.name = value
Assign ==
    /\ pc = "idle"
    /\ \E w \in ProxyWrites :
          \E r \in {__setattr__(self, w[1], w[2])} : Done("setattr", <<w>>, r)

\* engine.set_model('spatial', kernel)
SetModel ==
    /\ pc = "idle"
    /\ \E kernel \in Kernels :
          \E r \in {set_model(self, "spatial", kernel)} :
              Done("set_model", << <<"spatial", kernel>> >>, r)

\* engine.name
GetAttr ==
    /\ pc = "idle"
    /\ \E name \in {"lon", "richness"} \cup UnknownNames :
          \E r \in {Lookup(self, name)} : Done("getattr", << <<name, 0>> >>, r)

ProxyNext == Assign \/ SetModel \/ GetAttr

ProxySpec == Init /\ [][ProxyNext]_vars

\* C19: a read through the engine of a name that a sub-model owns returns that
\* sub-model's parameter value, whatever the engine itself holds under the name,
\* so a read after a write returns the value written.
C19_ReadMirrorsWrite ==
    (last.op = "getattr" /\ Owner(self, last.kwargs[1][1]) # "")
    => /\ last.exc = ""
       /\ last.ret = self.models[Owner(self, last.kwargs[1][1])][last.kwargs[1][1]]

----------------------------------------------------------------------------
(* Failed calls, checked under Spec *)

\* the groups of the parameters among the keywords are dirty in t
Marked(kwargs, t) ==
    \A i \in 1..Len(kwargs) :
        \A k \in DOMAIN t.models : kwargs[i][1] \in DOMAIN t.models[k] => t.sync[k]

\* C20: a value or sync_params call that fails with a domain error leaves the
\* cached observable_fraction, u_color, u_spatial, u, p and f as they were and
\* clears no dirty flag; the writes it made stay applied and their groups dirty.
C20_FailureKeepsDirty ==
    [][(last'.op \in {"value", "sync_params"} /\ last'.exc = "ValueError")
        => /\ Untouched(self, self')
           /\ Applied(last'.kwargs, self')
           /\ Marked(last'.kwargs, self')
           /\ last'.ran = {}]_vars

\* on a synchronized engine value(distance_modulus=0) failed in sync_params: the
\* write is applied and the color group dirty
C20_Witness ==
    /\ last.op = "value" /\ last.exc = "ValueError"
    /\ last.kwargs = << <<"distance_modulus", 0>> >>
    /\ self.synced /\ self.u # <<>>
    /\ self.models.color.distance_modulus = 0
    /\ self.sync["color"] /\ ~self.sync["spatial"]

----------------------------------------------------------------------------
(* The loop of fit_richness, checked under FitSpec *)

\* C15: a fit_richness run whose loop ended on a convergence test (a negative
\* vertex, or a new log-likelihood within atol of the best before it) reports no
\* iteration-cap warning.
C15_WarningOnlyWithoutConvergence ==
    (FitReturned /\ last.fit.found_maximum) => ~last.fit.warned


\* x is within atol of the greatest of the values old, none of them a NaN
NearBest(x, old) ==
    /\ \A j \in 1..Len(old) : old[j] # NaN
    /\ \E m \in 1..Len(old) :
          /\ \A j \in 1..Len(old) : Leq(old[j], old[m])
          /\ Less(Fabs(Sub(x, old[m])), atol)

\* a pass of the loop from the locals f0 to the locals f1; over says the loop
\* ended with it, t0 and t1 are the engine before and after
PassAsStated(f0, f1, over, t0, t1) ==
    /\ f1.parabola.x = f0.richness
    /\ f1.parabola.y = [i \in 1..Len(f0.loglike) |-> Mul(Num(2), f0.loglike[i])]
    /\ SubSeq(f1.richness, 1, 3) = SubSeq(f0.richness, 1, 3)
    /\ IF Less(f1.parabola.vertex_x, Zero)
       THEN /\ over
            /\ f1.richness = f0.richness /\ f1.loglike = f0.loglike
            /\ t1 = t0
       ELSE /\ f1.richness = Append(f0.richness, f1.parabola.vertex_x)
            /\ Len(f1.loglike) = Len(f0.loglike) + 1
            /\ SubSeq(f1.loglike, 1, Len(f0.loglike)) = f0.loglike
            /\ t1.models.richness.richness = f1.parabola.vertex_x
            /\ f1.loglike[Len(f1.loglike)] = __call__(t1)
            /\ over <=> (NearBest(f1.loglike[Len(f1.loglike)], f0.loglike)
                          \/ f1.iteration > f1.maxiter)
    /\ (\A i \in 1..Len(f0.richness) : Leq(Zero, f0.richness[i]))
       => \A i \in 1..Len(f1.richness) : Leq(Zero, f1.richness[i])

\* the locals f1 with which the loop is entered, f being self.f at the call
SeedsAsStated(f, f1) ==
    /\ f1.richness = <<Zero, Div(One, f), Div(Num(10), f)>>
    /\ Len(f1.loglike) = 3
    /\ Less(Zero, f) => \A i \in 1..3 : Leq(Zero, f1.richness[i])

----------------------------------------------------------------------------
(* Properties of richness_interval, checked under IntervalSpec *)

\* C12: with a NaN among the u_i, or every u_i zero, neither fit_richness nor
\* richness_interval raises: the call completes.
C12_DegenerateNeverRaises ==
    (/\ pc = "idle"
     /\ last.op \in {"fit_richness", "richness_interval"}
     /\ self.synced /\ Degenerate(self.u))
    => last.exc = ""

\* C17: no write, sync_params, fit_richness or richness_interval (and no value
\* call they make) changes the background density b set at construction.
C17_BackgroundFixed == [][self'.b = self.b]_vars

\* richness_interval has sampled its grid with a background that holds a zero
C17_Witness ==
    /\ pc = "idle" /\ last.op = "richness_interval" /\ last.exc = ""
    /\ last.interval.log_likelihood # <<>>
    /\ self.b = <<Zero, One>>

\* n values evenly spaced from lo to hi
Even(lo, hi, n) ==
    [i \in 1..n |-> Add(lo, Div(Mul(Num(i - 1), Sub(hi, lo)), Num(n - 1)))]

\* the likelihood of the engine s at richness r, everything else as cached
LikelihoodAt(s, r) ==
    __call__([s EXCEPT !.models.richness.richness = r,
                       !.p = SignalProbability(r, s.u, s.b)])

\* the grid and the samples of the interval locals i are those stated for the
\* lower bound lo and the upper bound hi; s is the engine after the call
GridAsStated(i, lo, hi, s) ==
    /\ i.richness[1] = Zero
    /\ Leq(Zero, i.richness_range) => \A k \in 1..Len(i.richness) : Leq(Zero, i.richness[k])
    /\ IF Less(Zero, lo)
       THEN i.richness = <<Zero>> \o Even(lo, hi, NPdfPoints)
       ELSE i.richness = Even(lo, hi, NPdfPoints)
    /\ i.n_pdf_points = Len(i.richness)
    /\ Len(i.log_likelihood) = Len(i.richness)
    /\ \A k \in 1..Len(i.richness) : i.log_likelihood[k] = LikelihoodAt(s, i.richness[k])
    /\ s.models.richness.richness = i.richness[Len(i.richness)]

\* C18: after a non-degenerate fit the grid of richness_interval starts with 0,
\* holds only values >= 0 when the range is non-negative, is n_pdf_points evenly
\* spaced values from max(0, richness_max - range) to richness_max + range with 0
\* put in front exactly when that lower bound is positive, and the likelihood is
\* evaluated once at each grid point, in grid order.
C18_GridAsStated ==
    (pc = "idle" /\ last.op = "richness_interval" /\ last.exc = "")
    => GridAsStated(last.interval,
                    Max0(Sub(last.interval.richness_max, last.interval.richness_range)),
                    Add(last.interval.richness_max, last.interval.richness_range),
                    self)

\* every dirty flag of the engine s is false
AllClean(s) == \A k \in DOMAIN s.sync : ~s.sync[k]

\* the engine s is as the evaluation at richness r left it: r is its richness,
\* no flag is dirty and p is the mixture probability at r
LeftAt(s, r) ==
    /\ s.models.richness.richness = r
    /\ AllClean(s)
    /\ s.p = SignalProbability(r, s.u, s.b)

\* the last richness at which fit_richness with locals f evaluated the likelihood
LastTrial(f) == f.richness[Len(f.loglike)]

\* fit_richness has returned a non-degenerate result
FitReturnedFit ==
    /\ pc = "idle" /\ last.op = "fit_richness" /\ last.exc = ""
    /\ last.fit.loglike # <<>>

\* richness_interval has returned
IntervalReturned ==
    pc = "idle" /\ last.op = "richness_interval" /\ last.exc = ""

\* C21: when fit_richness returns a non-degenerate result the richness of the
\* engine is the last trial richness at which the likelihood was evaluated (not
\* necessarily the best-fit richness returned), every dirty flag is false and p
\* is the mixture probability at that richness; after richness_interval the
\* richness of the engine is the last grid point sampled.
C21_EngineLeftAtLastTrial ==
    /\ FitReturnedFit => LeftAt(self, LastTrial(last.fit))
    /\ IntervalReturned =>
          self.models.richness.richness =
              last.interval.richness[Len(last.interval.log_likelihood)]

\* fit_richness has returned a best fit that is not the last trial
C21_Witness ==
    /\ FitReturnedFit
    /\ Len(last.fit.loglike) > 3
    /\ IsFinite(last.result.richness)
    /\ last.result.richness # LastTrial(last.fit)
    /\ self.models.richness.richness # last.result.richness

\* richness_interval has returned with a finite grid that ends away from the
\* best fit
C21_WitnessInterval ==
    /\ IntervalReturned
    /\ IsFinite(last.interval.richness_max)
    /\ Less(last.interval.richness_max, self.models.richness.richness)

====
